---------------------------- MODULE Spec2Model ----------------------------
(***************************************************************************)
(* Forest: the compact CID representation (src/utils/cid/mod.rs) and the   *)
(* database garbage-collection rendezvous behind the db_gc RPC method      *)
(* (src/rpc/db_api.rs).                                                    *)
(*                                                                         *)
(* Two specifications live in this module:                                 *)
(*   CidSpec  - SmallCid::from / cid() / Serialize / Deserialize applied   *)
(*              to Cids drawn from a bounded set;                          *)
(*   GcSpec   - concurrent db_gc callers, the capacity-1 request channel   *)
(*              and the GC worker (GcFairSpec adds the scheduling          *)
(*              fairness that the liveness property needs).                *)
(***************************************************************************)
EXTENDS Integers, Sequences, FiniteSets, TLC

VARIABLES
    \* ---- CID conversions ----
    c1,         \* the Cid under test
    c2,         \* a second Cid, for the equality comparison
    s1,         \* SmallCid::from(c1)
    s2,         \* SmallCid::from(c2)
    back,       \* s1.cid()
    ser,        \* the serialized form of s1
    de,         \* Deserialize applied to ser
    \* ---- GC rendezvous ----
    pc,         \* per db_gc call: its position inside db_gc
    rx,         \* per db_gc call: the reply channel whose receiver it holds (0: none)
    gcQueue,    \* content of the request channel behind gc_event_tx
    gcRxAlive,  \* the worker still holds the request channel's receiver
    reply,      \* per reply channel: buffered results
    txAt,       \* per reply channel: where its only Sender is
    wpc,        \* the worker's position
    wcur,       \* the reply channel the worker holds (0: none)
    wres,       \* the outcome of the compaction the worker just finished
    compacting, \* reply channels whose compaction is running
    ran,        \* per reply channel: compactions completed for it
    outcome,    \* per reply channel: outcome of the compaction run for it
    sent,       \* per reply channel: results the worker sent on it
    callRes,    \* per reply channel: what the db_gc call returned
    overlapped  \* pairs of calls that were in progress at the same time

cidVars == <<c1, c2, s1, s2, back, ser, de>>
gcVars == <<pc, rx, gcQueue, gcRxAlive, reply, txAt, wpc, wcur, wres,
            compacting, ran, outcome, sent, callRes, overlapped>>
vars == <<c1, c2, s1, s2, back, ser, de,
          pc, rx, gcQueue, gcRxAlive, reply, txAt, wpc, wcur, wres,
          compacting, ran, outcome, sent, callRes, overlapped>>

(***************************************************************************)
(* Part 1.  Cid and SmallCid                                               *)
(***************************************************************************)

\* pub const BLAKE2B256_SIZE: usize = 32;
BLAKE2B256_SIZE == 32

\* fvm_ipld_encoding::DAG_CBOR (multicodec 0x71)
DAG_CBOR == 113

\* u64::from(Code::Blake2b256) (multihash code 0xb220)
Blake2b256 == 45600

\* cid::Cid is CidGeneric<64>: its Multihash stores the digest in [u8; 64]
MhSize == 2 * BLAKE2B256_SIZE

\* Version::V0 / Version::V1 as their u64 values
V0 == 0
V1 == 1

\* multicodec dag-pb (0x70) and multihash sha2-256 (0x12): the only codec and
\* hash a V0 Cid may carry, with its 32-byte digest (0x20)
DAG_PB == DAG_CBOR - 1
SHA2_256 == 18
SHA2_256_SIZE == 32

\* Number of distinct byte values digests are built from.
NumByteVals == 2

ByteVals == {0} \cup {256 - k : k \in 1..(NumByteVals - 1)}

DigestLens == {0, BLAKE2B256_SIZE - 1, BLAKE2B256_SIZE, BLAKE2B256_SIZE + 1, MhSize}

Codecs == {DAG_CBOR, DAG_PB}

Codes == {Blake2b256, SHA2_256}

\* A digest array of width `width`: `size` digest bytes (all `fill`, the last
\* one `last`), zero after them, as Multihash::wrap and Multihash::read leave it.
DigestArray(width, size, fill, last) ==
    [i \in 1..width |-> IF i < size THEN fill ELSE IF i = size THEN last ELSE 0]

\* Multihash<S>::wrap(code, input_digest): Err when the input is wider than S.
wrap(width, code, input) ==
    IF Len(input) > width
    THEN [ok |-> FALSE]
    ELSE [ok |-> TRUE,
          mh |-> [code |-> code, size |-> Len(input),
                  digest |-> [i \in 1..width |->
                                 IF i <= Len(input) THEN input[i] ELSE 0]]]

\* Multihash<S>::resize::<R>(): Err(InvalidSize) when size > R, else the same
\* code and size with the first `size` digest bytes copied into [0; R].
resize(mh, R) ==
    IF mh.size > R
    THEN [ok |-> FALSE]
    ELSE [ok |-> TRUE,
          mh |-> [code |-> mh.code, size |-> mh.size,
                  digest |-> [i \in 1..R |->
                                 IF i <= mh.size THEN mh.digest[i] ELSE 0]]]

\* Multihash::into_inner(): (code, digest array, size)
into_inner(mh) == <<mh.code, mh.digest, mh.size>>

\* Cid::new_v1(codec, hash)
new_v1(codec, mh) == [version |-> V1, codec |-> codec, hash |-> mh]

\* The Cids the conversions are applied to: every V1 combination of codec,
\* hash code, digest length and digest pattern, and the V0 Cids (sha2-256,
\* 32 bytes, dag-pb).
CidInputs ==
    { new_v1(codec, [code |-> code, size |-> n,
                     digest |-> DigestArray(MhSize, n, f, l)]) :
        codec \in Codecs, code \in Codes, n \in DigestLens,
        f \in ByteVals, l \in ByteVals }
    \cup
    { [version |-> V0, codec |-> DAG_PB,
       hash |-> [code |-> SHA2_256, size |-> SHA2_256_SIZE,
                 digest |-> DigestArray(MhSize, SHA2_256_SIZE, f, l)]] :
        f \in ByteVals, l \in ByteVals }

\* Values of c1/c2/back, s1/s2 and ser before they are set
NoCid == [version |-> -1]
NoSmallCid == [tag |-> "None"]
NoBytes == <<-1>>

\* enum SmallCidInner
Other(c) == [tag |-> "Other", cid |-> c]
V1DagCborBlake2b(bytes) == [tag |-> "V1DagCborBlake2b", digest |-> bytes]

\* Mutants of canonical: a missing size test, a missing codec test, a missing
\* hash-code test.
canonical_NoSize(c) ==
    IF c.version = V1 /\ c.codec = DAG_CBOR
    THEN LET small_hash == resize(c.hash, BLAKE2B256_SIZE) IN
         IF small_hash.ok /\ into_inner(small_hash.mh)[1] = Blake2b256
         THEN V1DagCborBlake2b(into_inner(small_hash.mh)[2])
         ELSE Other(c)
    ELSE Other(c)

canonical_NoCodec(c) ==
    IF c.version = V1
    THEN LET small_hash == resize(c.hash, BLAKE2B256_SIZE) IN
         IF small_hash.ok /\ into_inner(small_hash.mh)[1] = Blake2b256
                          /\ into_inner(small_hash.mh)[3] = BLAKE2B256_SIZE
         THEN V1DagCborBlake2b(into_inner(small_hash.mh)[2])
         ELSE Other(c)
    ELSE Other(c)

canonical_NoCode(c) ==
    IF c.version = V1 /\ c.codec = DAG_CBOR
    THEN LET small_hash == resize(c.hash, BLAKE2B256_SIZE) IN
         IF small_hash.ok /\ into_inner(small_hash.mh)[3] = BLAKE2B256_SIZE
         THEN V1DagCborBlake2b(into_inner(small_hash.mh)[2])
         ELSE Other(c)
    ELSE Other(c)

\* SmallCidInner::canonical
canonical(c) ==
    IF c.version = V1 /\ c.codec = DAG_CBOR
    THEN LET small_hash == resize(c.hash, BLAKE2B256_SIZE) IN
         IF small_hash.ok
         THEN LET code == into_inner(small_hash.mh)[1]
                  bytes == into_inner(small_hash.mh)[2]
                  size == into_inner(small_hash.mh)[3]
              IN IF code = Blake2b256 /\ size = BLAKE2B256_SIZE
                 THEN V1DagCborBlake2b(bytes)
                 ELSE Other(c)
         ELSE Other(c)
    ELSE Other(c)

\* impl From<Cid> for SmallCid
from(c) == canonical(c)

\* SmallCid::cid
cid(s) ==
    IF s.tag = "Other"
    THEN s.cid
    ELSE new_v1(DAG_CBOR, wrap(MhSize, Blake2b256, s.digest).mh)

(***************************************************************************)
(* The wire form of a Cid (Cid::to_bytes / Cid::read_bytes, which the      *)
(* serde implementations of Cid write and read).                           *)
(***************************************************************************)

\* unsigned-varint (LEB128) encoding of n
RECURSIVE VarintEncode(_)
VarintEncode(n) ==
    IF n < 128 THEN <<n>> ELSE <<(n % 128) + 128>> \o VarintEncode(n \div 128)

\* unsigned-varint decoding of b from position i: the value and the position
\* after it, or an error at the end of the input
RECURSIVE VarintRead(_, _)
VarintRead(b, i) ==
    IF i > Len(b)
    THEN [ok |-> FALSE, val |-> 0, next |-> i]
    ELSE IF b[i] < 128
         THEN [ok |-> TRUE, val |-> b[i], next |-> i + 1]
         ELSE LET r == VarintRead(b, i + 1) IN
              [ok |-> r.ok, val |-> (b[i] - 128) + 128 * r.val, next |-> r.next]

\* Multihash::to_bytes: code, size, then the `size` digest bytes
MhBytes(mh) ==
    VarintEncode(mh.code) \o VarintEncode(mh.size) \o SubSeq(mh.digest, 1, mh.size)

\* Cid::to_bytes: a V0 Cid is its multihash alone
to_bytes(c) ==
    IF c.version = V0
    THEN MhBytes(c.hash)
    ELSE VarintEncode(c.version) \o VarintEncode(c.codec) \o MhBytes(c.hash)

\* Multihash::read from position i: Err when size > 64 or the input is short
MhRead(b, i) ==
    LET code == VarintRead(b, i)
        size == VarintRead(b, code.next)
    IN IF ~code.ok \/ ~size.ok \/ size.val > MhSize
          \/ size.next + size.val - 1 > Len(b)
       THEN [ok |-> FALSE]
       ELSE wrap(MhSize, code.val, SubSeq(b, size.next, size.next + size.val - 1))

\* Cid::read_bytes: the fixed 0x12 0x20 prefix is a V0 Cid; otherwise the
\* version must be 1, followed by the codec and the multihash
read_bytes(b) ==
    LET version == VarintRead(b, 1)
        codec == VarintRead(b, version.next)
    IN IF ~version.ok \/ ~codec.ok
       THEN [ok |-> FALSE]
       ELSE IF version.val = SHA2_256 /\ codec.val = SHA2_256_SIZE
            THEN IF codec.next + SHA2_256_SIZE - 1 > Len(b)
                 THEN [ok |-> FALSE]
                 ELSE [ok |-> TRUE,
                       cid |-> [version |-> V0, codec |-> DAG_PB,
                                hash |-> wrap(MhSize, version.val,
                                              SubSeq(b, codec.next,
                                                     codec.next + SHA2_256_SIZE - 1)).mh]]
            ELSE IF version.val # V1
                 THEN [ok |-> FALSE]
                 ELSE LET mh == MhRead(b, codec.next) IN
                      IF mh.ok
                      THEN [ok |-> TRUE, cid |-> new_v1(codec.val, mh.mh)]
                      ELSE [ok |-> FALSE]

\* Mutant of serialize: the compact variant written as its bare digest.
serialize_Compact(s) ==
    IF s.tag = "Other" THEN to_bytes(s.cid) ELSE s.digest

\* impl Serialize for SmallCid: self.cid().serialize(serializer)
serialize(s) == to_bytes(cid(s))

\* impl Deserialize for SmallCid: Ok(Self::from(Cid::deserialize(d)?))
deserialize(b) ==
    LET r == read_bytes(b) IN
    IF r.ok THEN [ok |-> TRUE, val |-> from(r.cid)] ELSE [ok |-> FALSE]

\* `de` before Deserialize has run
NoDe == [ok |-> FALSE, unset |-> TRUE]

(***************************************************************************)
(* Part 2.  The GC rendezvous                                              *)
(***************************************************************************)

\* Number of db_gc calls, each made by a caller of its own (an RPC request)
\* and free to run concurrently with the others.
NumCallers == 3

\* Capacity of the request channel behind gc_event_tx / gc_rx.
GcEventCap == 1

\* let (tx, rx) = flume::bounded(1);
ReplyCap == 1

Callers == 1..NumCallers
Chans == 1..NumCallers
Results == {"ok", "err"}

InFlight(c) == pc[c] \in {"send", "recv"}

\* Mutant of FreshChannel: one reply channel shared by every call.
FreshChannel_Shared(c) == 1

\* flume::bounded(1) makes a channel of the call's own; it is named after
\* the call
FreshChannel(c) == c

\* db_gc, line 11: create the reply channel
Bounded(c) ==
    /\ pc[c] = "idle"
    /\ LET ch == FreshChannel(c) IN
       /\ rx' = [rx EXCEPT ![c] = ch]
       /\ txAt' = [txAt EXCEPT ![ch] = "caller"]
       /\ overlapped' = overlapped \cup
                        {{ch, rx[d]} : d \in {e \in Callers \ {c} : InFlight(e)}}
    /\ pc' = [pc EXCEPT ![c] = "send"]
    /\ UNCHANGED <<gcQueue, gcRxAlive, reply, wpc, wcur, wres, compacting,
                   ran, outcome, sent, callRes>>
    /\ UNCHANGED cidVars

\* Mutant of SendAsyncOk: the send pushes without waiting for room.
SendAsyncOk_NoWait(c) ==
    /\ pc[c] = "send"
    /\ gcRxAlive
    /\ gcQueue' = Append(gcQueue, rx[c])
    /\ txAt' = [txAt EXCEPT ![rx[c]] = "queued"]
    /\ pc' = [pc EXCEPT ![c] = "recv"]
    /\ UNCHANGED <<rx, gcRxAlive, reply, wpc, wcur, wres, compacting, ran, outcome, sent, callRes, overlapped>>
    /\ UNCHANGED cidVars

\* Mutant of SendAsyncOk: the send future is never awaited, so nothing is
\* sent and the call goes on to wait for a reply.
SendAsyncOk_NotAwaited(c) ==
    /\ pc[c] = "send"
    /\ gcRxAlive
    /\ pc' = [pc EXCEPT ![c] = "recv"]
    /\ UNCHANGED <<rx, gcQueue, gcRxAlive, reply, txAt, wpc, wcur, wres,
                   compacting, ran, outcome, sent, callRes,
                   overlapped>>
    /\ UNCHANGED cidVars

\* db_gc, line 12: data.gc_event_tx.send_async(tx).await completes once the
\* request channel has room for the reply channel's Sender
SendAsyncOk(c) ==
    /\ pc[c] = "send"
    /\ gcRxAlive
    /\ Len(gcQueue) < GcEventCap
    /\ gcQueue' = Append(gcQueue, rx[c])
    /\ txAt' = [txAt EXCEPT ![rx[c]] = "queued"]
    /\ pc' = [pc EXCEPT ![c] = "recv"]
    /\ UNCHANGED <<rx, gcRxAlive, reply, wpc, wcur, wres, compacting, ran, outcome, sent, callRes, overlapped>>
    /\ UNCHANGED cidVars

\* db_gc, line 12: the request channel is disconnected; `?` returns the
\* error and the Sender inside it is dropped
SendAsyncErr(c) ==
    /\ pc[c] = "send"
    /\ ~gcRxAlive
    /\ txAt' = [txAt EXCEPT ![rx[c]] = "dropped"]
    /\ callRes' = [callRes EXCEPT ![rx[c]] = "err"]
    /\ pc' = [pc EXCEPT ![c] = "done"]
    /\ UNCHANGED <<rx, gcQueue, gcRxAlive, reply, wpc, wcur, wres, compacting,
                   ran, outcome, sent, overlapped>>
    /\ UNCHANGED cidVars

\* Mutant of ReplyToResult: the inner Result is not propagated.
ReplyToResult_Ignored(msg) == "ok"

\* db_gc, lines 13-14: the second `?` of `rx.recv_async().await??` returns
\* the worker's error; an Ok(()) message falls through to `Ok(())`
ReplyToResult(msg) == msg

\* db_gc, line 13: a result is buffered on the reply channel
RecvAsyncOk(c) ==
    /\ pc[c] = "recv"
    /\ reply[rx[c]] # <<>>
    /\ callRes' = [callRes EXCEPT ![rx[c]] = ReplyToResult(Head(reply[rx[c]]))]
    /\ reply' = [reply EXCEPT ![rx[c]] = Tail(@)]
    /\ pc' = [pc EXCEPT ![c] = "done"]
    /\ UNCHANGED <<rx, gcQueue, gcRxAlive, txAt, wpc, wcur, wres, compacting,
                   ran, outcome, sent, overlapped>>
    /\ UNCHANGED cidVars

\* db_gc, line 13: the reply channel is empty and its Sender is gone; the
\* first `?` returns the RecvError
RecvAsyncErr(c) ==
    /\ pc[c] = "recv"
    /\ reply[rx[c]] = <<>>
    /\ txAt[rx[c]] = "dropped"
    /\ callRes' = [callRes EXCEPT ![rx[c]] = "err"]
    /\ pc' = [pc EXCEPT ![c] = "done"]
    /\ UNCHANGED <<rx, gcQueue, gcRxAlive, reply, txAt, wpc, wcur, wres,
                   compacting, ran, outcome, sent, overlapped>>
    /\ UNCHANGED cidVars

\* Mutant of WorkerReady: a request is taken while a compaction is running.
WorkerReady_Eager == wpc # "stopped"

\* the worker takes the next request only when it is back at its receive
WorkerReady == wpc = "recv"

\* GC worker: dequeue one reply channel and start the compaction
WorkerRecv ==
    /\ WorkerReady
    /\ gcRxAlive
    /\ gcQueue # <<>>
    /\ wcur' = Head(gcQueue)
    /\ gcQueue' = Tail(gcQueue)
    /\ txAt' = [txAt EXCEPT ![Head(gcQueue)] = "worker"]
    /\ compacting' = compacting \cup {Head(gcQueue)}
    /\ wpc' = "gc"
    /\ UNCHANGED <<pc, rx, gcRxAlive, reply, wres, ran, outcome,
                   sent, callRes, overlapped>>
    /\ UNCHANGED cidVars

\* GC worker: the compaction ends, with success or with an error
WorkerFinish ==
    /\ wpc = "gc"
    /\ \E r \in Results :
         /\ wres' = r
         /\ outcome' = [outcome EXCEPT ![wcur] = r]
    /\ ran' = [ran EXCEPT ![wcur] = @ + 1]
    /\ compacting' = compacting \ {wcur}
    /\ wpc' = "reply"
    /\ UNCHANGED <<pc, rx, gcQueue, gcRxAlive, reply, txAt, wcur, sent, callRes, overlapped>>
    /\ UNCHANGED cidVars

\* GC worker: send the result on the reply channel it dequeued, then drop
\* the Sender and go back to receiving
WorkerSend ==
    /\ wpc = "reply"
    /\ Len(reply[wcur]) < ReplyCap
    /\ reply' = [reply EXCEPT ![wcur] = Append(@, wres)]
    /\ sent' = [sent EXCEPT ![wcur] = Append(@, wres)]
    /\ txAt' = [txAt EXCEPT ![wcur] = "dropped"]
    /\ wcur' = 0
    /\ wres' = "none"
    /\ wpc' = "recv"
    /\ UNCHANGED <<pc, rx, gcQueue, gcRxAlive, compacting, ran,
                   outcome, callRes, overlapped>>
    /\ UNCHANGED cidVars

\* GC worker: the task is cancelled or fails. Its receiver and the Sender it
\* holds are dropped; Senders still queued in the request channel either
\* stay there (the channel lives on through gc_event_tx) or go with it.
WorkerStop ==
    /\ wpc # "stopped"
    /\ wpc' = "stopped"
    /\ gcRxAlive' = FALSE
    /\ wcur' = 0
    /\ wres' = "none"
    /\ compacting' = {}
    /\ \E drain \in BOOLEAN :
         LET gone == (IF wcur # 0 THEN {wcur} ELSE {})
                     \cup (IF drain THEN {gcQueue[i] : i \in 1..Len(gcQueue)} ELSE {})
         IN /\ txAt' = [ch \in Chans |-> IF ch \in gone THEN "dropped" ELSE txAt[ch]]
            /\ gcQueue' = IF drain THEN <<>> ELSE gcQueue
    /\ UNCHANGED <<pc, rx, reply, ran, outcome, sent, callRes,
                   overlapped>>
    /\ UNCHANGED cidVars

(***************************************************************************)
(* Specifications                                                          *)
(***************************************************************************)

GcStart ==
    /\ pc = [c \in Callers |-> "idle"]
    /\ rx = [c \in Callers |-> 0]
    /\ gcQueue = <<>>
    /\ gcRxAlive = TRUE
    /\ reply = [ch \in Chans |-> <<>>]
    /\ txAt = [ch \in Chans |-> "none"]
    /\ wpc = "recv"
    /\ wcur = 0
    /\ wres = "none"
    /\ compacting = {}
    /\ ran = [ch \in Chans |-> 0]
    /\ outcome = [ch \in Chans |-> "none"]
    /\ sent = [ch \in Chans |-> <<>>]
    /\ callRes = [ch \in Chans |-> "none"]
    /\ overlapped = {}

CidStart ==
    /\ s1 = NoSmallCid
    /\ s2 = NoSmallCid
    /\ back = NoCid
    /\ ser = NoBytes
    /\ de = NoDe

CidInit ==
    /\ c1 \in CidInputs
    /\ c2 \in CidInputs
    /\ CidStart
    /\ GcStart

\* SmallCid::from(c1)
From1 ==
    /\ s1 = NoSmallCid
    /\ s1' = from(c1)
    /\ UNCHANGED <<c1, c2, s2, back, ser, de>>
    /\ UNCHANGED gcVars

\* SmallCid::from(c2)
From2 ==
    /\ s1 # NoSmallCid
    /\ s2 = NoSmallCid
    /\ s2' = from(c2)
    /\ UNCHANGED <<c1, c2, s1, back, ser, de>>
    /\ UNCHANGED gcVars

\* s1.cid()
ToCid ==
    /\ s2 # NoSmallCid
    /\ back = NoCid
    /\ back' = cid(s1)
    /\ UNCHANGED <<c1, c2, s1, s2, ser, de>>
    /\ UNCHANGED gcVars

\* s1.serialize(..)
Serialize ==
    /\ back # NoCid
    /\ ser = NoBytes
    /\ ser' = serialize(s1)
    /\ UNCHANGED <<c1, c2, s1, s2, back, de>>
    /\ UNCHANGED gcVars

\* SmallCid::deserialize(..) of the bytes just written
Deserialize ==
    /\ ser # NoBytes
    /\ de = NoDe
    /\ de' = deserialize(ser)
    /\ UNCHANGED <<c1, c2, s1, s2, back, ser>>
    /\ UNCHANGED gcVars

CidNext == From1 \/ From2 \/ ToCid \/ Serialize \/ Deserialize

CidSpec == CidInit /\ [][CidNext]_vars

GcInit ==
    /\ c1 = NoCid
    /\ c2 = NoCid
    /\ CidStart
    /\ GcStart

CallerNext(c) ==
    \/ Bounded(c)
    \/ SendAsyncOk(c)
    \/ SendAsyncErr(c)
    \/ RecvAsyncOk(c)
    \/ RecvAsyncErr(c)

WorkerNext == WorkerRecv \/ WorkerFinish \/ WorkerSend \/ WorkerStop

GcNext == (\E c \in Callers : CallerNext(c)) \/ WorkerNext

GcSpec == GcInit /\ [][GcNext]_vars

\* The executor polls every task that is ready: a step that stays enabled
\* is eventually taken.
GcFairness ==
    /\ \A c \in Callers : WF_vars(SendAsyncOk(c))
    /\ \A c \in Callers : WF_vars(SendAsyncErr(c))
    /\ \A c \in Callers : WF_vars(RecvAsyncOk(c))
    /\ \A c \in Callers : WF_vars(RecvAsyncErr(c))
    /\ WF_vars(WorkerRecv)
    /\ WF_vars(WorkerFinish)
    /\ WF_vars(WorkerSend)

GcFairSpec == GcInit /\ [][GcNext]_vars /\ GcFairness

(***************************************************************************)
(* Properties                                                              *)
(***************************************************************************)

\* The predicate of the compact variant: V1, DAG-CBOR, Blake2b-256 code,
\* 32-byte digest.
CanonicalForm(c) ==
    /\ c.version = V1
    /\ c.codec = DAG_CBOR
    /\ c.hash.code = Blake2b256
    /\ c.hash.size = BLAKE2B256_SIZE

\* C1: for every Cid c, whatever its version, codec, hash code and digest
\* length, SmallCid::from(c).cid() is a Cid equal to c.
C1_RoundTrip == back # NoCid => back = c1

C1_Witness ==
    /\ back # NoCid
    /\ s1.tag = "V1DagCborBlake2b"
    /\ c1.hash.digest[BLAKE2B256_SIZE] # 0

\* C2: a SmallCid made by From<Cid> or by Deserialize is the V1DagCborBlake2b
\* variant exactly when its source Cid is V1, DAG-CBOR, Blake2b-256 with a
\* 32-byte digest; an Other variant never holds a Cid of that form.
C2_Canonical ==
    /\ s1 # NoSmallCid =>
         /\ (s1.tag = "V1DagCborBlake2b") <=> CanonicalForm(c1)
         /\ s1.tag = "Other" => (s1.cid = c1 /\ ~CanonicalForm(s1.cid))
    /\ (de # NoDe /\ de.ok) =>
         /\ (de.val.tag = "V1DagCborBlake2b") <=> CanonicalForm(read_bytes(ser).cid)
         /\ de.val.tag = "Other" => ~CanonicalForm(de.val.cid)

C2_Witness ==
    /\ de # NoDe
    /\ de.ok
    /\ de.val.tag = "V1DagCborBlake2b"
    /\ s1.tag = "V1DagCborBlake2b"
    /\ CanonicalForm(c1)

\* C7: a SmallCid serializes to exactly the bytes of the full Cid it stands
\* for, in both variants, and deserializing those bytes gives back an equal
\* SmallCid.
C7_Serde ==
    /\ ser # NoBytes => (ser = to_bytes(c1) /\ ser = to_bytes(back))
    /\ de # NoDe => (de.ok /\ de.val = s1)

C7_Witness ==
    /\ de # NoDe
    /\ de.ok
    /\ de.val = s1
    /\ s1.tag = "Other"
    /\ c1.hash.code = Blake2b256
    /\ c1.hash.size = BLAKE2B256_SIZE - 1

\* C8: SmallCid::from(c1) = SmallCid::from(c2) exactly when c1 = c2, and two
\* SmallCids whose cid() agree are the same variant with the same payload.
C8_EqAgree ==
    s2 # NoSmallCid =>
        /\ (s1 = s2) <=> (c1 = c2)
        /\ (cid(s1) = cid(s2)) => (s1 = s2)

C8_Witness ==
    /\ s2 # NoSmallCid
    /\ c1 # c2
    /\ c1.hash.digest = c2.hash.digest
    /\ s1.tag = "V1DagCborBlake2b"
    /\ s2.tag = "Other"
    /\ s1 # s2

Returned(ch) == callRes[ch] # "none"

\* C3: with any number of db_gc callers and the one GC worker, at most one
\* compaction is running in every reachable state.
C3_OneInFlight == Cardinality(compacting) <= 1

C3_Witness ==
    /\ Cardinality(compacting) = 1
    /\ gcQueue # <<>>
    /\ \A c \in Callers : InFlight(c)

C5_Result ==
    /\ \A ch \in Chans :
         /\ callRes[ch] = "ok" => sent[ch] = <<"ok">>
         /\ (Returned(ch) /\ sent[ch] = <<"err">>) => callRes[ch] = "err"
         /\ (Returned(ch) /\ sent[ch] = <<>>) => callRes[ch] = "err"
    /\ \A c \in Callers :
         /\ (pc[c] = "send" /\ ~gcRxAlive) =>
              (ENABLED SendAsyncErr(c) /\ ~ENABLED SendAsyncOk(c))
         /\ (pc[c] = "recv" /\ sent[rx[c]] = <<>> /\ txAt[rx[c]] = "dropped") =>
              (ENABLED RecvAsyncErr(c) /\ ~ENABLED RecvAsyncOk(c))
         /\ (pc[c] = "recv" /\ sent[rx[c]] = <<"err">>) =>
              (ENABLED RecvAsyncOk(c) /\ ReplyToResult(Head(reply[rx[c]])) = "err")

C5_Witness ==
    \E a, b, d \in Chans :
        /\ callRes[a] = "ok"
        /\ callRes[b] = "err" /\ sent[b] = <<"err">>
        /\ callRes[d] = "err" /\ sent[d] = <<>> /\ ran[d] = 0

\* C6: the request channel never holds more than one reply channel, and a
\* caller's send completes only in a step that starts with the request
\* channel empty: while a first request is still queued, a second caller's
\* send stays pending until the worker has dequeued the first.
C6_Backpressure ==
    /\ [](Len(gcQueue) <= 1)
    /\ [][\A c \in Callers :
            (pc[c] = "send" /\ pc'[c] = "recv") =>
                (gcQueue = <<>> /\ gcQueue' = <<rx[c]>>)]_vars

C6_Witness ==
    /\ gcRxAlive
    /\ Len(gcQueue) = 1
    /\ \E c \in Callers : pc[c] = "send" /\ ~ENABLED SendAsyncOk(c)

\* A step of a caller inside db_gc or of the running worker.
GcProgress ==
    \/ \E c \in Callers :
         SendAsyncOk(c) \/ SendAsyncErr(c) \/ RecvAsyncOk(c) \/ RecvAsyncErr(c)
    \/ WorkerRecv
    \/ WorkerFinish
    \/ WorkerSend

\* C9: while the worker keeps running, every db_gc call in progress
\* eventually returns, and no state with a call in progress leaves caller
\* and worker both unable to step.
C9_Returns ==
    /\ \A c \in Callers : InFlight(c) ~> (pc[c] = "done" \/ wpc = "stopped")
    /\ []((wpc # "stopped" /\ \E c \in Callers : InFlight(c)) => ENABLED GcProgress)

C9_Witness ==
    /\ wpc # "stopped"
    /\ \A c \in Callers : pc[c] = "done"
    /\ \E a, b \in Chans :
         a # b /\ {a, b} \in overlapped /\ Returned(a) /\ Returned(b)

=============================================================================
